---- MODULE Spec2Model ----
(***************************************************************************)
(* Reverse-initiated chunked file transfer: the WebSocket server           *)
(* (src/server/server.js) and the on-premise client (src/unnamed/part_000, *)
(* lines 65-286).  Every action is one event-loop callback of one of the   *)
(* two programs, run to completion.                                        *)
(***************************************************************************)
EXTENDS Integers, Sequences, FiniteSets, TLC

\* ---------------------------------------------------------------- bounds
MaxFileLen == 3         \* longest source file, in bytes
MaxChunkSize == 2       \* largest configured CHUNK_SIZE
MaxConns == 3           \* WebSocket connections ever created
MaxClock == 1           \* last value of the millisecond clock
MaxEnv == 2             \* events of the environment in one run: administrative
                        \* calls, lost connections, frames of foreign peers

Procs == {"p1", "p2"}
Ids == {"a", "b"}
GhostId == "ghost"
CLIENT_ID == [p \in Procs |-> IF p = "p1" THEN "a" ELSE "b"]

\* The source files tried: one per length, with bytes that differ by position
\* and exercise every sextet of a base64 group.
PatternByte(i) == (77 + 89 * (i - 1)) % 256
SourceFiles == {[i \in 1..k |-> PatternByte(i)] : k \in 0..MaxFileLen}
Min(x, y) == IF x < y THEN x ELSE y

\* ---------------------------------------------------------------- base64
\* A base64 text is a sequence of sextets 0..63, with 64 for the pad '='.
B64Pad == 64

EncodeGroup(g) ==
    LET b1 == g[1]
        b2 == IF Len(g) >= 2 THEN g[2] ELSE 0
        b3 == IF Len(g) >= 3 THEN g[3] ELSE 0
        n  == b1 * 65536 + b2 * 256 + b3
        s1 == n \div 262144
        s2 == (n \div 4096) % 64
        s3 == (n \div 64) % 64
        s4 == n % 64
    IN  IF Len(g) = 1 THEN <<s1, s2, B64Pad, B64Pad>>
        ELSE IF Len(g) = 2 THEN <<s1, s2, s3, B64Pad>>
        ELSE <<s1, s2, s3, s4>>

RECURSIVE Base64Encode(_)
Base64Encode(bytes) ==
    IF bytes = <<>> THEN <<>>
    ELSE LET k == Min(3, Len(bytes))
         IN  EncodeGroup(SubSeq(bytes, 1, k)) \o Base64Encode(SubSeq(bytes, k + 1, Len(bytes)))

\* The sextets before the first pad.
RECURSIVE UpToPad(_)
UpToPad(s) ==
    IF s = <<>> \/ Head(s) = B64Pad THEN <<>> ELSE <<Head(s)>> \o UpToPad(Tail(s))

DecodeGroup(q) ==
    LET v(i) == IF Len(q) >= i THEN q[i] ELSE 0
        n == v(1) * 262144 + v(2) * 4096 + v(3) * 64 + v(4)
        b1 == n \div 65536
        b2 == (n \div 256) % 256
        b3 == n % 256
    IN  IF Len(q) <= 1 THEN <<>>
        ELSE IF Len(q) = 2 THEN <<b1>>
        ELSE IF Len(q) = 3 THEN <<b1, b2>>
        ELSE <<b1, b2, b3>>

RECURSIVE DecodeSextets(_)
DecodeSextets(s) ==
    IF s = <<>> THEN <<>>
    ELSE LET k == Min(4, Len(s))
         IN  DecodeGroup(SubSeq(s, 1, k)) \o DecodeSextets(SubSeq(s, k + 1, Len(s)))

\* Mutant: a decoder that takes the pad for a sextet.
Base64DecodeKeepPad(text) == DecodeSextets(text)

\* Buffer.from(text, 'base64').
Base64Decode(text) == DecodeSextets(UpToPad(text))


\* ---------------------------------------------------------------- messages
\* The JSON envelopes.  raw = FALSE is a frame JSON.parse rejects.
NoNum == 0 - 1
Envelope(t, cid, did, chunk, idx, total, size, err) ==
    [raw |-> TRUE, type |-> t, clientId |-> cid, downloadId |-> did, chunk |-> chunk,
     chunkIndex |-> idx, totalChunks |-> total, fileSize |-> size, error |-> err]
RegisterMsg(cid) == Envelope("register", cid, NoNum, <<>>, NoNum, NoNum, NoNum, "")
RegisteredMsg(cid) == Envelope("registered", cid, NoNum, <<>>, NoNum, NoNum, NoNum, "")
DownloadRequestMsg(did) == Envelope("download-request", "", did, <<>>, NoNum, NoNum, NoNum, "")
FileChunkMsg(cid, did, chunk, idx) == Envelope("file-chunk", cid, did, chunk, idx, NoNum, NoNum, "")
FileCompleteMsg(cid, did, total, size) ==
    Envelope("file-complete", cid, did, <<>>, NoNum, total, size, "")
ErrorMsg(cid, did, err) == Envelope("error", cid, did, <<>>, NoNum, NoNum, NoNum, err)
UnknownMsg == Envelope("ping", "", NoNum, <<>>, NoNum, NoNum, NoNum, "")
GarbageFrame == [Envelope("", "", NoNum, <<>>, NoNum, NoNum, NoNum, "") EXCEPT !.raw = FALSE]

\* ---------------------------------------------------------------- state
VARIABLES
    clients,            \* server: the Map clientId -> entry, in insertion order
    files,              \* server: the download directory, path -> bytes
    streams,            \* server: every write stream ever created
    now,                \* server: Date.now()
    conns,              \* every WebSocket: owner process and both ends' state
    c2s,                \* frames in flight client -> server, per connection
    s2c,                \* frames in flight server -> client, per connection
    ws,                 \* client: the module-level ws, per process
    reconnectInterval,  \* client: the reconnect timer is set, per process
    xfers,              \* client: the activations of handleDownloadRequest
    alive,              \* client: the process has not died of an uncaught exception
    source,             \* client: the file at FILE_PATH, per process
    chunkSize,          \* client: CHUNK_SIZE
    apiCalls,           \* administrative calls made so far
    lastApi,            \* the outcome of the last requestFileDownload
    nForeign,           \* foreign frames taken so far
    nLost,              \* connections lost so far
    rcvIdx,             \* history: chunkIndex values received, per (clientId, downloadId)
    completed,          \* history: the file-complete frames handled for a registered client
    abandoned,          \* history: the downloads that were current when their socket closed
    reported,           \* history: the error frames the server handled
    sendErr             \* history: some send callback reported an error

vars == <<clients, files, streams, now, conns, c2s, s2c, ws, reconnectInterval, xfers,
          alive, source, chunkSize, apiCalls, lastApi, nForeign, nLost, rcvIdx, completed,
          abandoned, reported, sendErr>>

srvVars == <<clients, files, streams>>
histVars == <<rcvIdx, completed, abandoned, reported>>
cliVars == <<ws, reconnectInterval, xfers, alive>>
cfgVars == <<source, chunkSize>>

NoFile == [exists |-> FALSE, bytes |-> <<>>]
SourceOf(p) ==
    IF p = "p1" THEN {NoFile} \cup {[exists |-> TRUE, bytes |-> b] : b \in SourceFiles}
    ELSE {[exists |-> TRUE, bytes |-> [i \in 1..k |-> 13]] : k \in 0..MaxFileLen}

NoApi == [clientId |-> "", ok |-> FALSE, downloadId |-> NoNum, status |-> "", error |-> ""]

\* The state once both programs have started: the server listens with an
\* empty registry, every client has called connect() once.
Init ==
    /\ clients = <<>>
    /\ files = <<>>
    /\ streams = <<>>
    /\ now = 0
    /\ conns = <<[owner |-> "p1", cstate |-> "CONNECTING", sstate |-> "none"]>>
    /\ c2s = <<<<>>>>
    /\ s2c = <<<<>>>>
    /\ ws = [p \in Procs |-> IF p = "p1" THEN 1 ELSE 0]
    /\ reconnectInterval = [p \in Procs |-> FALSE]
    /\ xfers = [p \in Procs |-> <<>>]
    /\ alive = [p \in Procs |-> TRUE]
    /\ source \in {f \in [Procs -> UNION {SourceOf(p) : p \in Procs}] :
                      f["p1"] \in SourceOf("p1") /\ f["p2"] = NoFile}
    /\ chunkSize \in 1..MaxChunkSize
    /\ apiCalls = 0
    /\ lastApi = NoApi
    /\ nForeign = 0
    /\ nLost = 0
    /\ rcvIdx = <<>>
    /\ completed = {}
    /\ abandoned = {}
    /\ reported = {}
    /\ sendErr = FALSE


\* ---------------------------------------------------------------- server
\* The Map `clients`: a sequence of entries in insertion order, one per key.
Has(m, cid) == \E i \in 1..Len(m) : m[i].id = cid
IndexOf(m, cid) == CHOOSE i \in 1..Len(m) : m[i].id = cid
MapSet(m, cid, entry) == IF Has(m, cid) THEN [m EXCEPT ![IndexOf(m, cid)] = entry] ELSE Append(m, entry)
RemoveAt(m, i) == SubSeq(m, 1, i - 1) \o SubSeq(m, i + 1, Len(m))
Entry(cid) == clients[IndexOf(clients, cid)]      \* clients.get(cid)

ConnIds == 1..Len(conns)
\* The activations of handleDownloadRequest that met an error of the file system.
Failed == UNION {{<<p, k>> : k \in {j \in 1..Len(xfers[p]) : xfers[p][j].st = "failed"}} : p \in Procs}
nReadErr == Cardinality(Failed)
EnvLeft == apiCalls + nForeign + nLost + nReadErr < MaxEnv
\* Closing one end of c is a new loss unless the other end closed already.
LossOf(c) == IF conns[c].cstate # "CLOSED" /\ conns[c].sstate # "closed" THEN 1 ELSE 0
SrvOpen(c) == conns[c].sstate = "open"

\* fileName of handleFileChunk: `${clientId}_${downloadId}_file_to_download.txt`.
FilePath(cid, did) == <<cid, did>>
Content(path) == IF path \in DOMAIN files THEN files[path] ELSE <<>>

\* A write of buf through a descriptor whose offset is pos (holes read as 0).
WriteAt(content, pos, buf) ==
    LET keep == SubSeq(content, 1, Min(pos, Len(content)))
        hole == [i \in 1..(pos - Len(keep)) |-> 0]
        rest == SubSeq(content, pos + Len(buf) + 1, Len(content))
    IN  keep \o hole \o buf \o rest

\* Mutant: only the clients with a download in progress are listed.
ListClientsActiveOnly ==
    LET act == SelectSeq(clients, LAMBDA e : e.currentDownload # <<>>)
    IN  [i \in 1..Len(act) |->
            [id |-> act[i].id, connectedAt |-> act[i].connectedAt,
             hasActiveDownload |-> TRUE]]

\* GET /api/clients: Array.from(clients.values()).map(...), one record per
\* entry in the Map's insertion order; count is the length of that list.
ListClients ==
    [i \in 1..Len(clients) |->
        [id |-> clients[i].id, connectedAt |-> clients[i].connectedAt,
         hasActiveDownload |-> clients[i].currentDownload # <<>>]]

\* GET /health: websocket.connectedClients is clients.size.
HealthSnapshot ==
    [status |-> "healthy", websocket |-> [connectedClients |-> Len(clients)]]

\* Mutant: the acknowledgment is not sent.
HandleClientRegistrationNoAck(c, data) ==
    /\ now' \in now..MaxClock
    /\ clients' = MapSet(clients, data.clientId,
                         [id |-> data.clientId, ws |-> c, connectedAt |-> now',
                          currentDownload |-> <<>>])
    /\ UNCHANGED <<files, streams, histVars, s2c>>

\* handleClientRegistration: clients.set replaces the whole entry and the
\* acknowledgment goes out on the registering socket.
HandleClientRegistration(c, data) ==
    /\ now' \in now..MaxClock        \* new Date(): the clock may have advanced
    /\ clients' = MapSet(clients, data.clientId,
                         [id |-> data.clientId, ws |-> c, connectedAt |-> now',
                          currentDownload |-> <<>>])
    /\ s2c' = [s2c EXCEPT ![c] = Append(@, RegisteredMsg(data.clientId))]
    /\ UNCHANGED <<files, streams, histVars>>

\* Mutant: a chunk naming an unknown client is written to a sink all the same.
HandleFileChunkNoGuard(data) ==
    LET key == <<data.clientId, data.downloadId>>
        seen == IF key \in DOMAIN rcvIdx THEN rcvIdx[key] ELSE <<>>
        path == FilePath(data.clientId, data.downloadId)
        buffer == Base64Decode(data.chunk)
        fresh == ~Has(clients, data.clientId) \/ Entry(data.clientId).currentDownload = <<>>
        h == IF fresh THEN Len(streams) + 1 ELSE Entry(data.clientId).currentDownload[1].stream
        streams1 == IF fresh
                    THEN Append(streams, [path |-> path, pos |-> 0, open |-> TRUE,
                                          owner |-> 0, from |-> <<>>])
                    ELSE streams
        files1 == IF fresh THEN (path :> <<>>) @@ files ELSE files
        st == streams1[h]
    IN  /\ UNCHANGED <<completed, abandoned, reported, s2c, now>>
        /\ rcvIdx' = (key :> Append(seen, data.chunkIndex)) @@ rcvIdx
        /\ files' = [files1 EXCEPT ![st.path] = WriteAt(@, st.pos, buffer)]
        /\ streams' = [streams1 EXCEPT ![h].pos = @ + Len(buffer),
                                       ![h].from = Append(@, data.downloadId)]
        /\ clients' = IF ~Has(clients, data.clientId) THEN clients
                      ELSE [clients EXCEPT ![IndexOf(clients, data.clientId)].currentDownload =
                               <<[id |-> data.downloadId, filePath |-> st.path, stream |-> h,
                                  chunksReceived |-> Len(st.from) + 1]>>]

\* Mutant: one download record shared by all clients instead of one per entry.
HandleFileChunkShared(data) ==
    LET key == <<data.clientId, data.downloadId>>
        seen == IF key \in DOMAIN rcvIdx THEN rcvIdx[key] ELSE <<>>
    IN
    /\ UNCHANGED <<completed, abandoned, reported, s2c, now>>
    /\ IF ~Has(clients, data.clientId)
       THEN UNCHANGED <<srvVars, rcvIdx>>
       ELSE LET busy == {n \in 1..Len(clients) : clients[n].currentDownload # <<>>}
                i == IF busy = {} THEN IndexOf(clients, data.clientId)
                     ELSE CHOOSE n \in busy : \A n2 \in busy : n <= n2
                fresh == clients[i].currentDownload = <<>>
                path == FilePath(data.clientId, data.downloadId)
                h == IF fresh THEN Len(streams) + 1 ELSE clients[i].currentDownload[1].stream
                streams1 == IF fresh
                            THEN Append(streams, [path |-> path, pos |-> 0, open |-> TRUE,
                                                  owner |-> clients[i].ws, from |-> <<>>])
                            ELSE streams
                files1 == IF fresh THEN (path :> <<>>) @@ files ELSE files
                dl == IF fresh
                      THEN [id |-> data.downloadId, filePath |-> path, stream |-> h,
                            chunksReceived |-> 0]
                      ELSE clients[i].currentDownload[1]
                buffer == Base64Decode(data.chunk)
                st == streams1[h]
            IN  /\ rcvIdx' = (key :> Append(seen, data.chunkIndex)) @@ rcvIdx
                /\ files' = [files1 EXCEPT ![st.path] = WriteAt(@, st.pos, buffer)]
                /\ streams' = [streams1 EXCEPT ![h].pos = @ + Len(buffer),
                                               ![h].from = Append(@, data.downloadId)]
                /\ clients' = [clients EXCEPT ![i].currentDownload =
                                   <<[dl EXCEPT !.chunksReceived = @ + 1]>>]

\* handleFileChunk.
HandleFileChunk(data) ==
    LET key == <<data.clientId, data.downloadId>>
        seen == IF key \in DOMAIN rcvIdx THEN rcvIdx[key] ELSE <<>>
    IN
    /\ UNCHANGED <<completed, abandoned, reported, s2c, now>>
    /\ IF ~Has(clients, data.clientId)
       THEN UNCHANGED <<srvVars, rcvIdx>>
       ELSE LET i == IndexOf(clients, data.clientId)
                fresh == clients[i].currentDownload = <<>>
                path == FilePath(data.clientId, data.downloadId)
                h == IF fresh THEN Len(streams) + 1 ELSE clients[i].currentDownload[1].stream
                streams1 == IF fresh
                            THEN Append(streams, [path |-> path, pos |-> 0, open |-> TRUE,
                                                  owner |-> clients[i].ws, from |-> <<>>])
                            ELSE streams
                files1 == IF fresh THEN (path :> <<>>) @@ files ELSE files
                dl == IF fresh
                      THEN [id |-> data.downloadId, filePath |-> path, stream |-> h,
                            chunksReceived |-> 0]
                      ELSE clients[i].currentDownload[1]
                buffer == Base64Decode(data.chunk)
                st == streams1[h]
            IN  /\ rcvIdx' = (key :> Append(seen, data.chunkIndex)) @@ rcvIdx
                /\ files' = [files1 EXCEPT ![st.path] = WriteAt(@, st.pos, buffer)]
                /\ streams' = [streams1 EXCEPT ![h].pos = @ + Len(buffer),
                                               ![h].from = Append(@, data.downloadId)]
                /\ clients' = [clients EXCEPT ![i].currentDownload =
                                   <<[dl EXCEPT !.chunksReceived = @ + 1]>>]

\* handleFileComplete.
HandleFileComplete(c, data) ==
    /\ UNCHANGED <<files, rcvIdx, abandoned, reported, s2c, now>>
    /\ IF ~Has(clients, data.clientId)
       THEN UNCHANGED <<clients, streams, completed>>
       ELSE LET i == IndexOf(clients, data.clientId)
                cur == clients[i].currentDownload
            IN  /\ completed' = completed \cup
                       {[clientId |-> data.clientId, downloadId |-> data.downloadId,
                         totalChunks |-> data.totalChunks, fileSize |-> data.fileSize,
                         conn |-> c, session |-> cur,
                         bytes |-> IF cur = <<>> THEN <<>> ELSE Content(cur[1].filePath)]}
                /\ IF cur # <<>>
                   THEN /\ streams' = [streams EXCEPT ![cur[1].stream].open = FALSE]
                        /\ clients' = [clients EXCEPT ![i].currentDownload = <<>>]
                   ELSE UNCHANGED <<clients, streams>>

\* handleClientError: the error is logged.
HandleClientError(data) ==
    /\ reported' = reported \cup {data}
    /\ UNCHANGED <<srvVars, rcvIdx, completed, abandoned, s2c, now>>

\* The body of ws.on('message') of the server: parse, dispatch on the type tag.
Dispatch(c, data) ==
    IF ~data.raw THEN UNCHANGED <<srvVars, histVars, s2c, now>>
    ELSE IF data.type = "register" THEN HandleClientRegistration(c, data)
    ELSE IF data.type = "file-chunk" THEN HandleFileChunk(data)
    ELSE IF data.type = "file-complete" THEN HandleFileComplete(c, data)
    ELSE IF data.type = "error" THEN HandleClientError(data)
    ELSE UNCHANGED <<srvVars, histVars, s2c, now>>

\* Mutant: the frames of a socket are handled newest first.
SrvReceiveNewestFirst(c) ==
    /\ SrvOpen(c)
    /\ c2s[c] # <<>>
    /\ c2s' = [c2s EXCEPT ![c] = SubSeq(@, 1, Len(@) - 1)]
    /\ Dispatch(c, c2s[c][Len(c2s[c])])
    /\ UNCHANGED <<conns, cliVars, cfgVars, apiCalls, lastApi, nForeign, nLost, sendErr>>

\* The server takes the next frame the shipped client sent on socket c.
SrvReceive(c) ==
    /\ SrvOpen(c)
    /\ c2s[c] # <<>>
    /\ c2s' = [c2s EXCEPT ![c] = Tail(@)]
    /\ Dispatch(c, Head(c2s[c]))
    /\ UNCHANGED <<conns, cliVars, cfgVars, apiCalls, lastApi, nForeign, nLost, sendErr>>

\* ws.on('close') of the server: the first entry holding this socket goes.
FirstHolding(m, c) ==
    IF \E i \in 1..Len(m) : m[i].ws = c
    THEN CHOOSE i \in 1..Len(m) : m[i].ws = c /\ \A j \in 1..(i - 1) : m[j].ws # c
    ELSE 0

\* Mutant: the close handler deletes the first entry without comparing its
\* socket with the one that closed.
SrvCloseAny(c) ==
    /\ SrvOpen(c)
    /\ LossOf(c) = 1 => EnvLeft
    /\ nLost' = nLost + LossOf(c)
    /\ conns' = [conns EXCEPT ![c].sstate = "closed"]
    /\ clients' = IF clients = <<>> THEN clients ELSE RemoveAt(clients, 1)
    /\ abandoned' = IF clients = <<>> THEN abandoned
                    ELSE LET e == clients[1]
                         IN  IF e.currentDownload = <<>> THEN abandoned
                             ELSE abandoned \cup {[clientId |-> e.id, conn |-> c,
                                                   session |-> e.currentDownload[1],
                                                   prior |-> completed]}
    /\ c2s' = [c2s EXCEPT ![c] = <<>>]
    /\ UNCHANGED <<files, streams, now, s2c, cliVars, cfgVars, apiCalls, lastApi,
                   nForeign, rcvIdx, completed, reported, sendErr>>

\* ws.on('close'): the first entry whose socket is the closed one is deleted.
SrvClose(c) ==
    /\ SrvOpen(c)
    /\ LossOf(c) = 1 => EnvLeft
    /\ nLost' = nLost + LossOf(c)
    /\ conns' = [conns EXCEPT ![c].sstate = "closed"]
    /\ clients' = IF FirstHolding(clients, c) = 0 THEN clients
                  ELSE RemoveAt(clients, FirstHolding(clients, c))
    /\ abandoned' = IF FirstHolding(clients, c) = 0 THEN abandoned
                    ELSE LET e == clients[FirstHolding(clients, c)]
                         IN  IF e.currentDownload = <<>> THEN abandoned
                             ELSE abandoned \cup {[clientId |-> e.id, conn |-> c,
                                                   session |-> e.currentDownload[1],
                                                   prior |-> completed]}
    /\ c2s' = [c2s EXCEPT ![c] = <<>>]      \* frames not yet read are never read
    /\ UNCHANGED <<files, streams, now, s2c, cliVars, cfgVars, apiCalls, lastApi,
                   nForeign, rcvIdx, completed, reported, sendErr>>

\* requestFileDownload, as POST /api/download calls it.
NotConnected(cid) == <<"Client", cid, "is not connected">>
NotOpen == <<"WebSocket is not open">>

\* Mutant: the lookup miss does not reject.
RequestFileDownloadLax(cid) ==
    /\ EnvLeft
    /\ apiCalls' = apiCalls + 1
    /\ now' \in now..MaxClock
    /\ lastApi' = [clientId |-> cid, ok |-> TRUE, downloadId |-> now',
                   status |-> "initiated", error |-> ""]
    /\ s2c' = IF Has(clients, cid) /\ SrvOpen(clients[IndexOf(clients, cid)].ws)
              THEN [s2c EXCEPT ![clients[IndexOf(clients, cid)].ws] =
                        Append(@, DownloadRequestMsg(now'))]
              ELSE s2c
    /\ UNCHANGED <<srvVars, conns, c2s, cliVars, cfgVars, nForeign, nLost, histVars, sendErr>>

\* Mutant: the request frame is never sent.
RequestFileDownloadSilent(cid) ==
    /\ EnvLeft
    /\ apiCalls' = apiCalls + 1
    /\ now' \in now..MaxClock
    /\ lastApi' = IF Has(clients, cid)
                  THEN [clientId |-> cid, ok |-> TRUE, downloadId |-> now',
                        status |-> "initiated", error |-> ""]
                  ELSE [NoApi EXCEPT !.clientId = cid, !.error = NotConnected(cid)]
    /\ UNCHANGED <<s2c, srvVars, conns, c2s, cliVars, cfgVars, nForeign, nLost, histVars,
                   sendErr>>

RequestFileDownload(cid) ==
    /\ EnvLeft
    /\ apiCalls' = apiCalls + 1
    /\ now' \in now..MaxClock        \* Date.now(): the clock may have advanced
    /\ IF ~Has(clients, cid)
       THEN /\ lastApi' = [NoApi EXCEPT !.clientId = cid, !.error = NotConnected(cid)]
            /\ s2c' = s2c
       ELSE LET client == clients[IndexOf(clients, cid)]
                downloadId == now'
            IN  /\ s2c' = IF SrvOpen(client.ws)
                          THEN [s2c EXCEPT ![client.ws] = Append(@, DownloadRequestMsg(downloadId))]
                          ELSE s2c
                /\ \/ lastApi' = [clientId |-> cid, ok |-> TRUE, downloadId |-> downloadId,
                                  status |-> "initiated", error |-> ""]
                   \/ /\ ~SrvOpen(client.ws)      \* send on a closed socket may throw
                      /\ lastApi' = [NoApi EXCEPT !.clientId = cid, !.error = NotOpen]
    /\ UNCHANGED <<srvVars, conns, c2s, cliVars, cfgVars, nForeign, nLost, histVars, sendErr>>


\* ---------------------------------------------------------------- client
\* What ws.send does on socket w: an OPEN socket takes the frame; a
\* CONNECTING one throws; a closed one fails the callback when there is
\* one, and otherwise drops the frame or throws (depending on the library).
SendOutcomes(cs, w, hasCb) ==
    IF cs[w].cstate = "OPEN" THEN {"sent"}
    ELSE IF cs[w].cstate = "CONNECTING" THEN {"throw"}
    ELSE IF hasCb THEN {"cberr"}
    ELSE {"dropped", "throw"}

Enqueue(o, w, m) == IF o = "sent" THEN [c2s EXCEPT ![w] = Append(@, m)] ELSE c2s

\* An uncaught exception ends the process: its sockets close, its timer dies.
Killed(cs, p) ==
    [c \in DOMAIN cs |-> IF cs[c].owner = p THEN [cs[c] EXCEPT !.cstate = "CLOSED"] ELSE cs[c]]
AfterThrow(o, cs, p) == IF o = "throw" THEN Killed(cs, p) ELSE cs

\* connect(): a new socket replaces the module-level ws.
Connect(p) ==
    /\ conns' = Append(conns, [owner |-> p, cstate |-> "CONNECTING", sstate |-> "none"])
    /\ c2s' = Append(c2s, <<>>)
    /\ s2c' = Append(s2c, <<>>)
    /\ ws' = [ws EXCEPT ![p] = Len(conns) + 1]

\* The setInterval callback of attemptReconnect fires.
TimerFire(p) ==
    /\ alive[p]
    /\ reconnectInterval[p]
    /\ Len(conns) < MaxConns
    /\ Connect(p)
    /\ UNCHANGED <<srvVars, now, reconnectInterval, xfers, alive, cfgVars, apiCalls, lastApi,
                   nForeign, nLost, histVars, sendErr>>

\* ws.on('open'): the server accepted socket c; the handler clears the
\* timer and registers through the module-level ws.
Open(c) ==
    LET p == conns[c].owner
        cs == [conns EXCEPT ![c].cstate = "OPEN", ![c].sstate = "open"]
    IN  /\ conns[c].cstate = "CONNECTING"
        /\ alive[p]
        /\ \E o \in SendOutcomes(cs, ws[p], FALSE) :
              /\ c2s' = Enqueue(o, ws[p], RegisterMsg(CLIENT_ID[p]))
              /\ conns' = AfterThrow(o, cs, p)
              /\ alive' = [alive EXCEPT ![p] = (o # "throw")]
              /\ reconnectInterval' = [reconnectInterval EXCEPT ![p] = FALSE]
        /\ UNCHANGED <<srvVars, now, s2c, ws, xfers, cfgVars, apiCalls, lastApi, nForeign, nLost,
                       histVars, sendErr>>

\* ws.on('close') of the client, for a socket that was open or that never
\* opened: attemptReconnect sets the timer unless it is already set.
AttemptReconnect(p) == [reconnectInterval EXCEPT ![p] = TRUE]

ClientClose(c) ==
    LET p == conns[c].owner
    IN  /\ conns[c].cstate \in {"CONNECTING", "OPEN"}
        /\ alive[p]
        /\ LossOf(c) = 1 => EnvLeft
        /\ nLost' = nLost + LossOf(c)
        /\ conns' = [conns EXCEPT ![c].cstate = "CLOSED"]
        /\ reconnectInterval' = AttemptReconnect(p)
        /\ s2c' = [s2c EXCEPT ![c] = <<>>]  \* frames not yet read are never read
        /\ UNCHANGED <<srvVars, now, c2s, ws, xfers, alive, cfgVars, apiCalls, lastApi,
                       nForeign, histVars, sendErr>>

\* handleDownloadRequest up to the creation of the read stream.
NewTransfer(did, size) ==
    [downloadId |-> did, chunkIndex |-> 0, totalBytesSent |-> 0, fileSize |-> size,
     pos |-> 0, st |-> "flowing", sentOn |-> 0, sentLen |-> 0,
     sent |-> 0, cbs |-> 0,        \* history: chunk sends and their callbacks so far
     out |-> <<>>,                 \* history: error and completion frames a socket took
     idxs |-> <<>>,                \* history: chunkIndex of the chunk frames a socket took
     bytesOut |-> 0,               \* history: decoded payload bytes of those frames
     born |-> Len(conns)]          \* history: the sockets opened before the request came

\* ws.send of an error frame from the body of the async function: a throw
\* is an unhandled rejection, which may end the process.
SendError(p, did, message) ==
    \E o \in SendOutcomes(conns, ws[p], FALSE) : \E dies \in BOOLEAN :
        /\ (dies => o = "throw")
        /\ c2s' = Enqueue(o, ws[p], ErrorMsg(CLIENT_ID[p], did, message))
        /\ conns' = IF dies THEN Killed(conns, p) ELSE conns
        /\ alive' = [alive EXCEPT ![p] = ~dies]

\* Mutant: the missing-file branch does not return.
HandleDownloadRequestNoReturn(p, data) ==
    /\ IF source[p].exists THEN UNCHANGED <<c2s, conns, alive>>
       ELSE SendError(p, data.downloadId, "File not found")
    /\ xfers' = [xfers EXCEPT ![p] =
                     Append(@, NewTransfer(data.downloadId, Len(source[p].bytes)))]

HandleDownloadRequest(p, data) ==
    IF ~source[p].exists
    THEN /\ SendError(p, data.downloadId, "File not found")
         /\ xfers' = xfers
    ELSE \/ /\ xfers' = [xfers EXCEPT ![p] =
                             Append(@, NewTransfer(data.downloadId, Len(source[p].bytes)))]
            /\ UNCHANGED <<c2s, conns, alive>>
         \/ /\ EnvLeft              \* statSync or createReadStream throws: the catch block
            /\ SendError(p, data.downloadId, "stat")
            /\ xfers' = [xfers EXCEPT ![p] =
                   Append(@, [NewTransfer(data.downloadId, 0) EXCEPT
                                 !.st = "failed",
                                 !.out = IF c2s' = c2s THEN <<>>
                                         ELSE <<ErrorMsg(CLIENT_ID[p], data.downloadId, "stat")>>])]

\* ws.on('message') of the client.
ClientReceive(c) ==
    LET p == conns[c].owner
        data == Head(s2c[c])
    IN  /\ conns[c].cstate = "OPEN"
        /\ alive[p]
        /\ s2c[c] # <<>>
        /\ s2c' = [s2c EXCEPT ![c] = Tail(@)]
        /\ IF data.type = "download-request"
           THEN HandleDownloadRequest(p, data)
           ELSE UNCHANGED <<c2s, conns, alive, xfers>>
        /\ UNCHANGED <<srvVars, now, ws, reconnectInterval, cfgVars, apiCalls, lastApi,
                       nForeign, nLost, histVars, sendErr>>

\* readStream.on('data'): pause, encode, send with a callback.
NextChunk(p, t) ==
    SubSeq(source[p].bytes, t.pos + 1, Min(t.pos + chunkSize, Len(source[p].bytes)))

\* Mutant: the stream is not paused while the chunk is in flight.
DataEventNoPause(p, k) ==
    LET t == xfers[p][k]
        chunk == NextChunk(p, t)
        msg == FileChunkMsg(CLIENT_ID[p], t.downloadId, Base64Encode(chunk), t.chunkIndex)
    IN  /\ alive[p]
        /\ t.st = "flowing"
        /\ t.pos < Len(source[p].bytes)
        /\ \E o \in SendOutcomes(conns, ws[p], TRUE) :
              /\ c2s' = Enqueue(o, ws[p], msg)
              /\ conns' = AfterThrow(o, conns, p)
              /\ alive' = [alive EXCEPT ![p] = (o # "throw")]
              /\ sendErr' = (sendErr \/ o = "cberr")
              /\ xfers' = [xfers EXCEPT ![p][k] =
                     [t EXCEPT !.pos = t.pos + Len(chunk),
                               !.st = IF o = "sent" THEN "flowing" ELSE "destroyed",
                               !.sentOn = IF o = "sent" THEN ws[p] ELSE 0,
                               !.sent = @ + 1,
                               !.cbs = IF o = "cberr" THEN @ + 1 ELSE @,
                               !.idxs = IF o = "sent" THEN Append(@, msg.chunkIndex) ELSE @,
                               !.bytesOut = IF o = "sent"
                                            THEN @ + Len(Base64Decode(msg.chunk)) ELSE @,
                               !.sentLen = Len(chunk)]]
        /\ UNCHANGED <<srvVars, now, s2c, ws, reconnectInterval, cfgVars, apiCalls, lastApi,
                       nForeign, nLost, histVars>>

DataEvent(p, k) ==
    LET t == xfers[p][k]
        chunk == NextChunk(p, t)
        msg == FileChunkMsg(CLIENT_ID[p], t.downloadId, Base64Encode(chunk), t.chunkIndex)
    IN  /\ alive[p]
        /\ t.st = "flowing"
        /\ t.pos < Len(source[p].bytes)
        /\ \E o \in SendOutcomes(conns, ws[p], TRUE) :
              /\ c2s' = Enqueue(o, ws[p], msg)
              /\ conns' = AfterThrow(o, conns, p)
              /\ alive' = [alive EXCEPT ![p] = (o # "throw")]
              /\ sendErr' = (sendErr \/ o = "cberr")
              /\ xfers' = [xfers EXCEPT ![p][k] =
                     [t EXCEPT !.pos = t.pos + Len(chunk),
                               !.st = IF o = "sent" THEN "paused" ELSE "destroyed",
                               !.sentOn = IF o = "sent" THEN ws[p] ELSE 0,
                               !.sent = @ + 1,
                               !.cbs = IF o = "cberr" THEN @ + 1 ELSE @,
                               !.idxs = IF o = "sent" THEN Append(@, msg.chunkIndex) ELSE @,
                               !.bytesOut = IF o = "sent"
                                            THEN @ + Len(Base64Decode(msg.chunk)) ELSE @,
                               !.sentLen = Len(chunk)]]
        /\ UNCHANGED <<srvVars, now, s2c, ws, reconnectInterval, cfgVars, apiCalls, lastApi,
                       nForeign, nLost, histVars>>

\* Mutant: the callback ignores its error argument.
SendCallbackIgnoreError(p, k, error) ==
    LET t == xfers[p][k]
    IN  /\ alive[p]
        /\ t.st \in {"paused", "failed"}
        /\ t.sentOn # 0
        /\ error => (conns[t.sentOn].cstate # "OPEN" \/ conns[t.sentOn].sstate = "closed")
        /\ ~error => conns[t.sentOn].cstate = "OPEN"
        /\ xfers' = [xfers EXCEPT ![p][k] =
               IF t.st = "failed"
               THEN [t EXCEPT !.totalBytesSent = @ + t.sentLen,
                              !.chunkIndex = @ + 1,
                              !.sentOn = 0, !.cbs = @ + 1]
               ELSE [t EXCEPT !.totalBytesSent = @ + t.sentLen,
                              !.chunkIndex = @ + 1,
                              !.st = "flowing", !.sentOn = 0, !.cbs = @ + 1]]
        /\ sendErr' = (sendErr \/ error)
        /\ UNCHANGED <<srvVars, now, conns, c2s, s2c, ws, reconnectInterval, alive, cfgVars,
                       apiCalls, lastApi, nForeign, nLost, histVars>>

\* Mutant: the success branch of the callback forgets readStream.resume().
SendCallbackNoResume(p, k, error) ==
    LET t == xfers[p][k]
    IN  /\ alive[p]
        /\ t.st \in {"paused", "failed"}
        /\ t.sentOn # 0
        /\ error => (conns[t.sentOn].cstate # "OPEN" \/ conns[t.sentOn].sstate = "closed")
        /\ ~error => conns[t.sentOn].cstate = "OPEN"
        /\ xfers' = [xfers EXCEPT ![p][k] =
               IF t.st = "failed"
               THEN [t EXCEPT !.totalBytesSent = IF error THEN @ ELSE @ + t.sentLen,
                              !.chunkIndex = IF error THEN @ ELSE @ + 1,
                              !.sentOn = 0, !.cbs = @ + 1]
               ELSE IF error THEN [t EXCEPT !.st = "destroyed", !.sentOn = 0, !.cbs = @ + 1]
               ELSE [t EXCEPT !.totalBytesSent = @ + t.sentLen,
                              !.chunkIndex = @ + 1,
                              !.sentOn = 0, !.cbs = @ + 1]]
        /\ sendErr' = (sendErr \/ error)
        /\ UNCHANGED <<srvVars, now, conns, c2s, s2c, ws, reconnectInterval, alive, cfgVars,
                       apiCalls, lastApi, nForeign, nLost, histVars>>

\* Mutant: the success branch of the callback forgets chunkIndex++.
SendCallbackNoCount(p, k, error) ==
    LET t == xfers[p][k]
    IN  /\ alive[p]
        /\ t.st \in {"paused", "failed"}
        /\ t.sentOn # 0
        /\ error => (conns[t.sentOn].cstate # "OPEN" \/ conns[t.sentOn].sstate = "closed")
        /\ ~error => conns[t.sentOn].cstate = "OPEN"
        /\ xfers' = [xfers EXCEPT ![p][k] =
               IF t.st = "failed"
               THEN [t EXCEPT !.totalBytesSent = IF error THEN @ ELSE @ + t.sentLen,
                              !.sentOn = 0, !.cbs = @ + 1]
               ELSE IF error THEN [t EXCEPT !.st = "destroyed", !.sentOn = 0, !.cbs = @ + 1]
               ELSE [t EXCEPT !.totalBytesSent = @ + t.sentLen,
                              !.st = "flowing", !.sentOn = 0, !.cbs = @ + 1]]
        /\ sendErr' = (sendErr \/ error)
        /\ UNCHANGED <<srvVars, now, conns, c2s, s2c, ws, reconnectInterval, alive, cfgVars,
                       apiCalls, lastApi, nForeign, nLost, histVars>>

\* The callback of ws.send for the chunk in flight: without an error while
\* the socket is open, with one once the socket or its peer has closed.
SendCallback(p, k, error) ==
    LET t == xfers[p][k]
    IN  /\ alive[p]
        /\ t.st \in {"paused", "failed"}
        /\ t.sentOn # 0
        /\ error => (conns[t.sentOn].cstate # "OPEN" \/ conns[t.sentOn].sstate = "closed")
        /\ ~error => conns[t.sentOn].cstate = "OPEN"
        /\ xfers' = [xfers EXCEPT ![p][k] =
               IF t.st = "failed"       \* destroy() and resume() of a destroyed stream
               THEN [t EXCEPT !.totalBytesSent = IF error THEN @ ELSE @ + t.sentLen,
                              !.chunkIndex = IF error THEN @ ELSE @ + 1,
                              !.sentOn = 0, !.cbs = @ + 1]
               ELSE IF error THEN [t EXCEPT !.st = "destroyed", !.sentOn = 0, !.cbs = @ + 1]
               ELSE [t EXCEPT !.totalBytesSent = @ + t.sentLen,
                              !.chunkIndex = @ + 1,
                              !.st = "flowing", !.sentOn = 0, !.cbs = @ + 1]]
        /\ sendErr' = (sendErr \/ error)
        /\ UNCHANGED <<srvVars, now, conns, c2s, s2c, ws, reconnectInterval, alive, cfgVars,
                       apiCalls, lastApi, nForeign, nLost, histVars>>

\* Mutant: a stream that delivered no chunk sends no completion frame.
EndEventSkipEmpty(p, k) ==
    LET t == xfers[p][k]
        msg == FileCompleteMsg(CLIENT_ID[p], t.downloadId, t.chunkIndex, t.fileSize)
    IN  /\ alive[p]
        /\ t.st = "flowing"
        /\ t.pos = Len(source[p].bytes)
        /\ \E o \in (IF t.chunkIndex = 0 THEN {"dropped"} ELSE SendOutcomes(conns, ws[p], FALSE)) :
              /\ c2s' = Enqueue(o, ws[p], msg)
              /\ conns' = AfterThrow(o, conns, p)
              /\ alive' = [alive EXCEPT ![p] = (o # "throw")]
              /\ xfers' = [xfers EXCEPT ![p][k].st = "ended",
                                        ![p][k].out = IF o = "sent" THEN Append(@, msg) ELSE @]
        /\ UNCHANGED <<srvVars, now, s2c, ws, reconnectInterval, cfgVars, apiCalls, lastApi,
                       nForeign, nLost, histVars, sendErr>>

\* readStream.on('end'): the completion frame, sent without a callback.
EndEvent(p, k) ==
    LET t == xfers[p][k]
        msg == FileCompleteMsg(CLIENT_ID[p], t.downloadId, t.chunkIndex, t.fileSize)
    IN  /\ alive[p]
        /\ t.st = "flowing"
        /\ t.pos = Len(source[p].bytes)
        /\ \E o \in SendOutcomes(conns, ws[p], FALSE) :
              /\ c2s' = Enqueue(o, ws[p], msg)
              /\ conns' = AfterThrow(o, conns, p)
              /\ alive' = [alive EXCEPT ![p] = (o # "throw")]
              /\ xfers' = [xfers EXCEPT ![p][k].st = "ended",
                                        ![p][k].out = IF o = "sent" THEN Append(@, msg) ELSE @]
        /\ UNCHANGED <<srvVars, now, s2c, ws, reconnectInterval, cfgVars, apiCalls, lastApi,
                       nForeign, nLost, histVars, sendErr>>

\* Mutant: the 'error' handler only logs.
ReadErrorSilent(p, k) ==
    /\ alive[p]
    /\ xfers[p][k].st \in {"flowing", "paused"}
    /\ EnvLeft
    /\ xfers' = [xfers EXCEPT ![p][k].st = "failed"]
    /\ UNCHANGED <<srvVars, now, conns, c2s, s2c, ws, reconnectInterval, alive, cfgVars,
                   apiCalls, lastApi, nForeign, nLost, histVars, sendErr>>

\* readStream.on('error'): a read of the file failed, while the stream flows
\* or while it reads ahead during a pause.  The handler sends an error frame
\* without a callback; the stream destroys itself and never emits 'end'.
ReadError(p, k) ==
    LET t == xfers[p][k]
        msg == ErrorMsg(CLIENT_ID[p], t.downloadId, "read")
    IN  /\ alive[p]
        /\ t.st \in {"flowing", "paused"}
        /\ EnvLeft
        /\ \E o \in SendOutcomes(conns, ws[p], FALSE) :
              /\ c2s' = Enqueue(o, ws[p], msg)
              /\ conns' = AfterThrow(o, conns, p)
              /\ alive' = [alive EXCEPT ![p] = (o # "throw")]
              /\ xfers' = [xfers EXCEPT ![p][k].st = "failed",
                                        ![p][k].out = IF o = "sent" THEN Append(@, msg) ELSE @]
        /\ UNCHANGED <<srvVars, now, s2c, ws, reconnectInterval, cfgVars, apiCalls, lastApi,
                       nForeign, nLost, histVars, sendErr>>

\* ---------------------------------------------------------------- peers
\* The server takes a frame that the peer behind socket c sent and that the
\* shipped client would not have sent there.
ForeignDownloadId == MaxClock + 1       \* an id no request has produced
ForeignFrames ==
    {RegisterMsg("b")}
    \cup {FileChunkMsg(cid, ForeignDownloadId, Base64Encode(<<7>>), 0) : cid \in {"a", GhostId}}
    \cup {FileCompleteMsg(cid, ForeignDownloadId, 1, 1) : cid \in {"a", GhostId}}
    \cup {ErrorMsg("a", ForeignDownloadId, "x"), UnknownMsg, GarbageFrame}

Foreign(c, m) ==
    /\ EnvLeft
    /\ SrvOpen(c)
    /\ nForeign' = nForeign + 1
    /\ Dispatch(c, m)
    /\ UNCHANGED <<conns, c2s, cliVars, cfgVars, apiCalls, lastApi, nLost, sendErr>>

\* ---------------------------------------------------------------- system
Next ==
    \/ \E c \in ConnIds : SrvReceive(c)
    \/ \E c \in ConnIds : SrvClose(c)
    \/ \E cid \in {"a", GhostId} : RequestFileDownload(cid)
    \/ \E p \in Procs : TimerFire(p)
    \/ \E c \in ConnIds : Open(c)
    \/ \E c \in ConnIds : ClientClose(c)
    \/ \E c \in ConnIds : ClientReceive(c)
    \/ \E p \in Procs : \E k \in 1..Len(xfers[p]) : DataEvent(p, k)
    \/ \E p \in Procs : \E k \in 1..Len(xfers[p]) : \E error \in BOOLEAN : SendCallback(p, k, error)
    \/ \E p \in Procs : \E k \in 1..Len(xfers[p]) : EndEvent(p, k)
    \/ \E p \in Procs : \E k \in 1..Len(xfers[p]) : ReadError(p, k)
    \/ \E c \in ConnIds : \E m \in ForeignFrames : Foreign(c, m)

Spec == Init /\ [][Next]_vars

\* Two clients with different ids, both connected and registered, their
\* acknowledgments read; the administrator then asks for downloads and both
\* transfers run without a lost connection.
InitTwo ==
    /\ clients = <<[id |-> "a", ws |-> 1, connectedAt |-> 0, currentDownload |-> <<>>],
                   [id |-> "b", ws |-> 2, connectedAt |-> 0, currentDownload |-> <<>>]>>
    /\ files = <<>>
    /\ streams = <<>>
    /\ now = 0
    /\ conns = <<[owner |-> "p1", cstate |-> "OPEN", sstate |-> "open"],
                 [owner |-> "p2", cstate |-> "OPEN", sstate |-> "open"]>>
    /\ c2s = <<<<>>, <<>>>>
    /\ s2c = <<<<>>, <<>>>>
    /\ ws = [p \in Procs |-> IF p = "p1" THEN 1 ELSE 2]
    /\ reconnectInterval = [p \in Procs |-> FALSE]
    /\ xfers = [p \in Procs |-> <<>>]
    /\ alive = [p \in Procs |-> TRUE]
    /\ source \in {f \in [Procs -> UNION {SourceOf(p) : p \in Procs}] :
                      \A p \in Procs : f[p] \in SourceOf(p) /\ f[p].exists}
    /\ chunkSize \in 1..MaxChunkSize
    /\ apiCalls = 0
    /\ lastApi = NoApi
    /\ nForeign = 0
    /\ nLost = 0
    /\ rcvIdx = <<>>
    /\ completed = {}
    /\ abandoned = {}
    /\ reported = {}
    /\ sendErr = FALSE

NextTwo ==
    \/ \E cid \in Ids : RequestFileDownload(cid)
    \/ \E c \in ConnIds : ClientReceive(c)
    \/ \E p \in Procs : \E k \in 1..Len(xfers[p]) : DataEvent(p, k)
    \/ \E p \in Procs : \E k \in 1..Len(xfers[p]) : SendCallback(p, k, FALSE)
    \/ \E p \in Procs : \E k \in 1..Len(xfers[p]) : EndEvent(p, k)
    \/ \E c \in ConnIds : SrvReceive(c)

SpecTwo == InitTwo /\ [][NextTwo]_vars

\* The event loop runs every callback that is ready: a frame that has arrived
\* is handled, a flowing stream emits its next 'data' or its 'end', and (fair
\* transport) a send handed to an open socket is flushed and called back.
Fairness ==
    /\ WF_vars(ClientReceive(1))
    /\ WF_vars(\E k \in 1..Len(xfers["p1"]) : DataEvent("p1", k))
    /\ WF_vars(\E k \in 1..Len(xfers["p1"]) : SendCallback("p1", k, FALSE))
    /\ WF_vars(\E k \in 1..Len(xfers["p1"]) : EndEvent("p1", k))
    /\ WF_vars(SrvReceive(1))

\* The shipped client registered on its first socket, its file in place.
InitFair ==
    /\ clients = <<[id |-> "a", ws |-> 1, connectedAt |-> 0, currentDownload |-> <<>>]>>
    /\ files = <<>>
    /\ streams = <<>>
    /\ now = 0
    /\ conns = <<[owner |-> "p1", cstate |-> "OPEN", sstate |-> "open"]>>
    /\ c2s = <<<<>>>>
    /\ s2c = <<<<>>>>
    /\ ws = [p \in Procs |-> IF p = "p1" THEN 1 ELSE 0]
    /\ reconnectInterval = [p \in Procs |-> FALSE]
    /\ xfers = [p \in Procs |-> <<>>]
    /\ alive = [p \in Procs |-> p = "p1"]
    /\ source \in {f \in [Procs -> UNION {SourceOf(p) : p \in Procs}] :
                      f["p1"] \in SourceOf("p1") /\ f["p1"].exists /\ f["p2"] = NoFile}
    /\ chunkSize = MaxChunkSize
    /\ apiCalls = 0
    /\ lastApi = NoApi
    /\ nForeign = 0
    /\ nLost = 0
    /\ rcvIdx = <<>>
    /\ completed = {}
    /\ abandoned = {}
    /\ reported = {}
    /\ sendErr = FALSE

\* The client stays connected: no close, no peer frames, no failing read.
NextFair ==
    \/ RequestFileDownload("a")
    \/ ClientReceive(1)
    \/ \E k \in 1..Len(xfers["p1"]) : DataEvent("p1", k)
    \/ \E k \in 1..Len(xfers["p1"]) : SendCallback("p1", k, FALSE)
    \/ \E k \in 1..Len(xfers["p1"]) : EndEvent("p1", k)
    \/ SrvReceive(1)

SpecFair == InitFair /\ [][NextFair]_vars /\ Fairness

TypeOK ==
    /\ now \in 0..MaxClock
    /\ Len(conns) <= MaxConns
    /\ \A c \in ConnIds : conns[c].cstate \in {"CONNECTING", "OPEN", "CLOSED"}
    /\ apiCalls + nForeign + nLost + nReadErr \in 0..MaxEnv


\* ---------------------------------------------------------------- properties
Received(cid, did) == IF <<cid, did>> \in DOMAIN rcvIdx THEN rcvIdx[<<cid, did>>] ELSE <<>>
UpTo(n) == [i \in 1..n |-> i - 1]
Transfers == {<<p, k>> : p \in Procs, k \in 1..MaxEnv} \cap
             {x \in Procs \X Nat : x[2] \in 1..Len(xfers[x[1]])}

\* A run in which one registered client serves one download request, no
\* connection is lost, no send fails and no foreign frame arrives.
CleanRun ==
    /\ apiCalls = 1
    /\ nForeign = 0
    /\ nLost = 0
    /\ ~sendErr
    /\ \A p \in Procs : alive[p]

\* The bytes in the sink of the download a file-complete frame finalized.
SinkBytes(r) == IF r.session = <<>> THEN <<>> ELSE Content(r.session[1].filePath)

\* C1: in a clean run, once the server has handled the completion frame the
\* bytes in the sink are exactly the bytes of the client's source file, in order.
C1_RoundTrip ==
    CleanRun => \A r \in completed :
        r.clientId = CLIENT_ID["p1"] => SinkBytes(r) = source["p1"].bytes

C1_Witness ==
    /\ CleanRun
    /\ \E r \in completed :
          /\ r.session # <<>>
          /\ r.session[1].chunksReceived >= 2
          /\ Len(source["p1"].bytes) >= 2
          /\ SinkBytes(r) = source["p1"].bytes

\* C2: for every completed session the chunkIndex values the server received
\* for it are exactly 0, 1, ..., totalChunks - 1, in that order.  (Stated for
\* runs of the shipped client without lost connections.)
C2_Ordering ==
    (nForeign = 0 /\ nLost = 0) =>
        \A r \in completed : Received(r.clientId, r.downloadId) = UpTo(r.totalChunks)

\* C3: chunks of two sessions of one client are never appended to the same sink.
C3_NoInterleaving ==
    nForeign = 0 =>
        \A h \in 1..Len(streams) : \A i, j \in 1..Len(streams[h].from) :
            streams[h].from[i] = streams[h].from[j]

\* C4: after the close handler of a socket has run, no registry entry holds it.
C4_RegistryConsistency ==
    \A c \in ConnIds : conns[c].sstate = "closed" =>
        \A i \in 1..Len(clients) : clients[i].ws # c

\* C5: a requestFileDownload for an id that is not registered is rejected with
\* "Client <id> is not connected", sends nothing and changes neither the
\* registry nor any download.
C5_RejectUnknown ==
    [][(apiCalls' = apiCalls + 1 /\ ~Has(clients, lastApi'.clientId)) =>
          /\ ~lastApi'.ok
          /\ lastApi'.error = NotConnected(lastApi'.clientId)
          /\ UNCHANGED <<clients, files, streams, s2c, c2s>>]_vars

C5_Witness ==
    /\ lastApi.clientId = GhostId
    /\ lastApi.error = NotConnected(GhostId)
    /\ Has(clients, "a")

C7_FlowControl ==
    \A x \in Transfers : xfers[x[1]][x[2]].sent - xfers[x[1]][x[2]].cbs <= 1

C7_Witness ==
    \E x \in Transfers :
        /\ xfers[x[1]][x[2]].sent >= 2
        /\ xfers[x[1]][x[2]].sent - xfers[x[1]][x[2]].cbs = 1
        /\ xfers[x[1]][x[2]].st = "paused"

\* C8: once a socket has closed after some but not all chunks of a download
\* were received, the server never handles a completion frame for that download.
C8_NoCompleteAfterClose ==
    nForeign = 0 =>
        \A r \in abandoned : r.session.chunksReceived >= 1 =>
            ~\E q \in completed \ r.prior :
                /\ q.clientId = r.clientId
                /\ q.downloadId = r.session.id
                /\ q.totalChunks > r.session.chunksReceived

\* C9: when a socket with a download in progress closes, the sink of that
\* download is closed: no open write stream belongs to a closed socket.
C9_SinkReleased ==
    nForeign = 0 =>
        \A h \in 1..Len(streams) :
            streams[h].open => conns[streams[h].owner].sstate # "closed"

\* C10: a chunk or completion frame whose downloadId differs from the id of
\* the current download is discarded: it neither writes to the sink nor
\* finalizes the download.
C10_StaleDiscarded ==
    /\ \A h \in 1..Len(streams) : \A i \in 1..Len(streams[h].from) :
           streams[h].from[i] = streams[h].path[2]
    /\ \A q \in completed : q.session # <<>> => q.session[1].id = q.downloadId

\* C11: after the server has handled the completion frame of a download, a
\* further chunk carrying that downloadId is ignored: no write stream is
\* opened for the path of the completed file, the bytes of the file stay as
\* they were at completion, and the client has no current download of that id.
C11_LateChunkIgnored ==
    \A r \in completed : (r.session # <<>> /\ r.session[1].id = r.downloadId) =>
        /\ \A h \in 1..Len(streams) :
               h > r.session[1].stream => streams[h].path # r.session[1].filePath
        /\ Content(r.session[1].filePath) = r.bytes
        /\ Has(clients, r.clientId) =>
               \/ Entry(r.clientId).currentDownload = <<>>
               \/ Entry(r.clientId).currentDownload[1].id # r.downloadId

\* C12: two successful requestFileDownload calls return distinct download
\* ids, so that the sink paths FilePath(clientId, downloadId) of two downloads
\* of one client differ, also when both calls fall in the same clock tick.
C12_UniqueIds ==
    [][(apiCalls' = apiCalls + 1 /\ lastApi.ok /\ lastApi'.ok) =>
          /\ lastApi'.downloadId # lastApi.downloadId
          /\ FilePath(lastApi'.clientId, lastApi'.downloadId)
                 # FilePath(lastApi.clientId, lastApi.downloadId)]_vars

\* C13: when the client takes a download-request and the file at FILE_PATH
\* does not exist, it sends exactly one error frame carrying that downloadId
\* and the message 'File not found' and creates no read stream, so that no
\* file-chunk and no file-complete follows.  (Stated for runs in which no
\* connection has been lost.)
C13_FileNotFound ==
    [][\A c \in ConnIds :
          (/\ nLost = 0
           /\ ClientReceive(c)
           /\ Head(s2c[c]).type = "download-request"
           /\ ~source[conns[c].owner].exists) =>
              /\ c2s' = [c2s EXCEPT ![c] =
                            Append(@, ErrorMsg(CLIENT_ID[conns[c].owner],
                                               Head(s2c[c]).downloadId, "File not found"))]
              /\ xfers' = xfers
              /\ alive' = alive]_vars

C13_Witness ==
    /\ nLost = 0
    /\ ~source["p1"].exists
    /\ lastApi.ok
    /\ xfers["p1"] = <<>>
    /\ c2s[1] = <<ErrorMsg("a", lastApi.downloadId, "File not found")>>
    /\ s2c[1] = <<>>

XferOf(x) == xfers[x[1]][x[2]]

\* C14 (as claimed): every transfer that met an I/O error, a failed read or
\* a failed send, has sent one error frame carrying its downloadId; none ends
\* with neither an error nor a completion frame.
C14_ErrorOnIoError ==
    \A x \in Transfers :
        (alive[x[1]] /\ XferOf(x).st \in {"failed", "destroyed"}) =>
            \E m \in {"read", "stat"} :
                XferOf(x).out = <<ErrorMsg(CLIENT_ID[x[1]], XferOf(x).downloadId, m)>>

\* C14 (amended): a transfer whose read of the file failed has sent exactly
\* one error frame carrying its downloadId (when no connection was lost) and
\* never a completion frame; a transfer whose chunk send failed was destroyed
\* and has sent neither; a transfer that sent a completion frame sent no error
\* frame.
C14_SourceErrorReported ==
    \A x \in Transfers :
        LET t == XferOf(x)
            errs == {<<ErrorMsg(CLIENT_ID[x[1]], t.downloadId, m)>> : m \in {"read", "stat"}}
            done == <<FileCompleteMsg(CLIENT_ID[x[1]], t.downloadId, t.chunkIndex, t.fileSize)>>
        IN  /\ t.st = "failed" => t.out \in errs \cup {<<>>}
            /\ (t.st = "failed" /\ nLost = 0) => t.out \in errs
            /\ t.st = "destroyed" => t.out = <<>>
            /\ t.st = "ended" => t.out \in {done, <<>>}
            /\ t.st \in {"flowing", "paused"} => t.out = <<>>

C14_Witness ==
    \E x \in Transfers :
        /\ XferOf(x).st = "failed"
        /\ XferOf(x).sent >= 1
        /\ XferOf(x).pos < XferOf(x).fileSize
        /\ XferOf(x).out = <<ErrorMsg(CLIENT_ID[x[1]], XferOf(x).downloadId, "read")>>

\* C15: when the server handles an error frame for the current download of a
\* client, that download ends: the client has no current download afterwards
\* and the sink is closed, so that it takes no further bytes.
C15_ErrorEndsSession ==
    [][\A c \in ConnIds :
          (/\ SrvReceive(c)
           /\ Head(c2s[c]).raw
           /\ Head(c2s[c]).type = "error"
           /\ Has(clients, Head(c2s[c]).clientId)
           /\ Entry(Head(c2s[c]).clientId).currentDownload # <<>>
           /\ Entry(Head(c2s[c]).clientId).currentDownload[1].id = Head(c2s[c]).downloadId) =>
              /\ Has(clients', Head(c2s[c]).clientId)
              /\ clients'[IndexOf(clients', Head(c2s[c]).clientId)].currentDownload = <<>>
              /\ ~streams'[Entry(Head(c2s[c]).clientId).currentDownload[1].stream].open]_vars

Ceil(L, c) == (L + c - 1) \div c

\* C17: the file-complete of a transfer carries totalChunks equal to the
\* number of file-chunk frames sent for it and fileSize equal to the sum of
\* their decoded payload lengths; with chunk size c and source length L the
\* chunks carry the indices 0 .. Ceil(L, c) - 1 in that order and one
\* file-complete follows them.
C17_CompletionTotals ==
    \A x \in Transfers :
        LET t == XferOf(x)
            L == Len(source[x[1]].bytes)
            n == Ceil(L, chunkSize)
        IN  /\ t.st \in {"flowing", "paused", "ended"} =>
                   /\ t.idxs = UpTo(Len(t.idxs))
                   /\ Len(t.idxs) <= n
                   /\ t.bytesOut = Min(Len(t.idxs) * chunkSize, L)
            /\ t.st = "ended" =>
                   /\ t.idxs = UpTo(n)
                   /\ t.bytesOut = L
                   /\ t.out \in {<<>>, <<FileCompleteMsg(CLIENT_ID[x[1]], t.downloadId, n, L)>>}
                   /\ nLost = 0 => t.out # <<>>

C17_Witness ==
    \E x \in Transfers :
        /\ XferOf(x).st = "ended"
        /\ XferOf(x).idxs = <<0, 1>>
        /\ XferOf(x).out = <<FileCompleteMsg("a", XferOf(x).downloadId, 2, 2)>>
        /\ \E r \in completed : r.downloadId = XferOf(x).downloadId /\ r.totalChunks = 2

\* C18 (as claimed): the completion or error frame of a transfer is sent only
\* when every chunk of that transfer has been sent and flushed.
C18_SentAfterFlush ==
    \A x \in Transfers :
        (XferOf(x).st \in {"ended", "failed"} /\ XferOf(x).out # <<>>) =>
            XferOf(x).cbs = XferOf(x).sent

\* C18 (amended): a completion frame is sent only when every chunk of the
\* transfer has been sent and flushed; an error frame is sent after every
\* chunk of the transfer was handed to the socket, at most the last of them
\* not yet flushed; and the server handles the completion or error frame of a
\* transfer only after the chunks sent before it on the same socket.
C18_ChunksBeforeEnd ==
    /\ \A x \in Transfers :
           /\ XferOf(x).st = "ended" =>
                  XferOf(x).cbs = XferOf(x).sent /\ XferOf(x).chunkIndex = XferOf(x).sent
           /\ XferOf(x).st = "failed" => XferOf(x).sent - XferOf(x).cbs <= 1
    /\ (nLost = 0 /\ nForeign = 0) =>
           /\ \A r \in completed :
                  Len(Received(r.clientId, r.downloadId)) >= r.totalChunks
           /\ \A e \in reported :
                  \/ e.error = "File not found"     \* no read stream was created
                  \/ \E x \in Transfers :
                         /\ XferOf(x).st = "failed"
                         /\ XferOf(x).out = <<e>>
                         /\ Len(Received(e.clientId, e.downloadId)) >= Len(XferOf(x).idxs)

C18_Witness ==
    /\ nLost = 0 /\ nForeign = 0
    /\ \E e \in reported : \E x \in Transfers :
          /\ XferOf(x).st = "failed"
          /\ XferOf(x).out = <<e>>
          /\ Len(XferOf(x).idxs) >= 1
          /\ XferOf(x).sentOn # 0
          /\ Len(Received(e.clientId, e.downloadId)) = Len(XferOf(x).idxs)

\* The sink of a client that served at most one request holds a prefix of
\* that client's source: the chunks handled so far, in the order sent.
SinksOwn ==
    \A p \in Procs : (Len(xfers[p]) <= 1) =>
        \A path \in DOMAIN files : path[1] = CLIENT_ID[p] =>
            LET k == Len(Received(path[1], path[2]))
            IN  /\ Received(path[1], path[2]) = UpTo(k)
                /\ files[path] = SubSeq(source[p].bytes, 1,
                                        Min(k * chunkSize, Len(source[p].bytes)))

\* Handling a frame of socket c leaves the entries, write streams and files
\* of the clients registered on other sockets as they were.
OthersUnchanged(c) ==
    /\ Len(clients') = Len(clients)
    /\ \A i \in 1..Len(clients) : clients[i].ws # c =>
           /\ clients'[i] = clients[i]
           /\ \A path \in DOMAIN files : path[1] = clients[i].id =>
                  path \in DOMAIN files' /\ files'[path] = files[path]
    /\ \A h \in 1..Len(streams) : streams[h].owner # c => streams'[h] = streams[h]

\* C19: when two clients registered under different ids transfer at the same
\* time, under every interleaving each client's sink receives exactly that
\* client's chunks in that client's send order, and handling a frame of one
\* client leaves the other client's registry entry, download and sink unchanged.
C19_Independent ==
    [][SinksOwn' /\ \A c \in ConnIds : SrvReceive(c) => OthersUnchanged(c)]_vars

C19_Witness ==
    /\ Len(xfers["p1"]) = 1 /\ Len(xfers["p2"]) = 1
    /\ \A i \in 1..2 :
           /\ clients[i].currentDownload # <<>>
           /\ clients[i].currentDownload[1].chunksReceived >= 1
    /\ chunkSize = 1
    /\ Len(source["p1"].bytes) = 3
    /\ Len(source["p2"].bytes) = 2
    /\ streams[1].path[1] = "b" /\ streams[2].path[1] = "a"
    /\ Content(streams[2].path) = SubSeq(source["p1"].bytes, 1, 2)
    /\ Content(streams[1].path) = source["p2"].bytes

\* The frames the server discards: one JSON.parse rejects, one of an
\* unrecognized type, a file-chunk or file-complete naming an unregistered id.
Discarded(m) ==
    \/ ~m.raw
    \/ m.type \notin {"register", "file-chunk", "file-complete", "error"}
    \/ m.type \in {"file-chunk", "file-complete"} /\ ~Has(clients, m.clientId)

\* C20: handling a discarded frame changes nothing: the socket stays open,
\* nothing is sent, and the registry, every download record, every write
\* stream and every file are as before.
C20_DiscardNoOp ==
    [][\A c \in ConnIds :
          /\ \A m \in ForeignFrames : (Discarded(m) /\ Foreign(c, m)) =>
                 UNCHANGED <<clients, files, streams, conns, s2c, c2s, rcvIdx, completed>>
          /\ (c2s[c] # <<>> /\ Discarded(Head(c2s[c])) /\ SrvReceive(c)) =>
                 UNCHANGED <<clients, files, streams, conns, s2c, rcvIdx, completed>>]_vars

\* Two discarded frames were handled: nothing else explains two foreign
\* frames that left no entry for 'b', no file, no completion and no report.
C20_Witness ==
    /\ nForeign = 2
    /\ Len(clients) = 1 /\ clients[1].id = "a" /\ clients[1].currentDownload = <<>>
    /\ files = <<>> /\ streams = <<>> /\ rcvIdx = <<>>
    /\ completed = {} /\ reported = {}
    /\ conns[1].sstate = "open" /\ conns[1].cstate = "OPEN"

\* The server handles frame m arriving on socket c.
Handles(c, m) == (SrvReceive(c) /\ Head(c2s[c]) = m) \/ Foreign(c, m)

\* C21: handling REGISTER{clientId} on a socket makes the entry of clientId
\* hold that socket (inserting it, or replacing the entry in place), sends
\* exactly one REGISTERED{clientId} on that socket and on no other, and leaves
\* the entries of all other ids as they were.
C21_Registration ==
    [][\A c \in ConnIds : \A cid \in Ids :
          Handles(c, RegisterMsg(cid)) =>
              /\ Has(clients', cid)
              /\ clients'[IndexOf(clients', cid)].ws = c
              /\ s2c' = [s2c EXCEPT ![c] = Append(@, RegisteredMsg(cid))]
              /\ Len(clients') = Len(clients) + (IF Has(clients, cid) THEN 0 ELSE 1)
              /\ \A i \in 1..Len(clients) :
                     IF clients[i].id = cid THEN clients'[i].id = cid
                     ELSE clients'[i] = clients[i]]_vars

C21_Witness ==
    /\ Len(clients) = 2
    /\ clients[1].id = "a" /\ clients[1].ws = 2
    /\ clients[2].id = "b" /\ clients[2].ws = 1
    /\ \E i \in 1..Len(s2c[2]) : s2c[2][i] = RegisteredMsg("a")

\* One record per registered id, and the health count equals the record count.
OnePerId(list) ==
    /\ \A i, j \in 1..Len(list) : list[i].id = list[j].id => i = j
    /\ {list[i].id : i \in 1..Len(list)} = {clients[i].id : i \in 1..Len(clients)}
    /\ \A i \in 1..Len(list) :
           /\ list[i].connectedAt = Entry(list[i].id).connectedAt
           /\ list[i].hasActiveDownload = (Entry(list[i].id).currentDownload # <<>>)
    /\ HealthSnapshot.websocket.connectedClients = Len(list)

ByConnectedAt(list) ==
    \A i, j \in 1..Len(list) : i < j => list[i].connectedAt <= list[j].connectedAt

\* A register frame replaces, in place, an entry by one with a later time.
ReRegisters ==
    \E i \in 1..Len(clients) :
        /\ i <= Len(clients')
        /\ clients'[i].id = clients[i].id
        /\ clients'[i].connectedAt > clients[i].connectedAt

\* C22 (as stated): in every reachable state listClients has exactly one record
\* per registered id, the records are in ascending connectedAt order, and the
\* health count equals the number of records.
C22_Snapshots == OnePerId(ListClients) /\ ByConnectedAt(ListClients)

\* C22 (amended): in every reachable state listClients has exactly one record
\* per registered id and the health count equals the number of records; the
\* records stay in ascending connectedAt order across every step except one
\* that re-registers an id still in the registry, which renews connectedAt
\* but keeps the entry's position in the list.
C22_SnapshotsInOrder ==
    /\ OnePerId(ListClients)
    /\ [][/\ OnePerId(ListClients)'
          /\ (ByConnectedAt(ListClients) /\ ~ReRegisters)
                 => ByConnectedAt(ListClients)']_vars

C22_Witness ==
    /\ Len(ListClients) = 2
    /\ ListClients[1].id = "a" /\ ListClients[2].id = "b"
    /\ ListClients[1].connectedAt > ListClients[2].connectedAt
    /\ conns[1].sstate = "closed"

\* A download-request for did is on its way to the client process p.
Requested(p, did) ==
    \E i \in 1..Len(s2c[ws[p]]) : s2c[ws[p]][i] = DownloadRequestMsg(did)

\* Every request for did was taken up and its transfer ran to its 'end', every
\* frame of did was handled by the server, a file-complete among them, and the
\* client has no download in progress.
Finished(p, did) ==
    /\ ~Requested(p, did)
    /\ \A k \in 1..Len(xfers[p]) :
           xfers[p][k].downloadId = did => xfers[p][k].st = "ended"
    /\ \A i \in 1..Len(c2s[ws[p]]) : c2s[ws[p]][i].downloadId # did
    /\ \E r \in completed : r.clientId = CLIENT_ID[p] /\ r.downloadId = did
    /\ Has(clients, CLIENT_ID[p])
    /\ Entry(CLIENT_ID[p]).currentDownload = <<>>

\* C23: while the clients stay connected and every send is flushed, a download
\* request sent to a client whose file is readable leads to a state where the
\* server has handled the file-complete of that download and the client has
\* no download in progress.
C23_EventualCompletion ==
    \A did \in 0..MaxClock :
        Requested("p1", did) ~> (Finished("p1", did) \/ nReadErr > 0)

C23_Witness ==
    /\ Finished("p1", 0)
    /\ nReadErr = 0
    /\ \E r \in completed : r.clientId = "a" /\ r.downloadId = 0 /\ r.totalChunks = 2 /\ r.fileSize = 3
    /\ apiCalls = 2

\* The server handles a file-chunk or file-complete frame arriving on socket c.
SessionFrameOn(c) ==
    \/ SrvReceive(c) /\ Head(c2s[c]).type \in {"file-chunk", "file-complete"}
    \/ \E m \in ForeignFrames :
          m.type \in {"file-chunk", "file-complete"} /\ Foreign(c, m)

\* C24: handling a file-chunk or file-complete that arrived on socket c leaves
\* the registry entry (with its download) and the files of every client whose
\* entry holds another socket as they were.
C24_ConnectionScoped ==
    [][\A c \in ConnIds : SessionFrameOn(c) =>
          \A i \in 1..Len(clients) : clients[i].ws # c =>
              /\ i <= Len(clients') /\ clients'[i] = clients[i]
              /\ \A path \in DOMAIN files : path[1] = clients[i].id =>
                     path \in DOMAIN files' /\ files'[path] = files[path]]_vars

\* C25: the close of a socket that no longer holds an id, another socket having
\* registered that id since, removes no entry: the registry is as it was, so
\* the lookup of the id still gives the later socket with its download; and
\* whatever a close removes, every entry holding another socket stays as it was.
C25_SupersededClose ==
    [][\A c \in ConnIds : SrvClose(c) =>
          /\ (\A i \in 1..Len(clients) : clients[i].ws # c) => clients' = clients
          /\ \A i \in 1..Len(clients) : clients[i].ws # c =>
                 /\ Has(clients', clients[i].id)
                 /\ clients'[IndexOf(clients', clients[i].id)] = clients[i]]_vars

\* Socket 1 registered 'a' and received a chunk, socket 2 then registered 'a',
\* and socket 1's close handler has run since: it found no entry to abandon.
C25_Witness ==
    /\ Len(streams) >= 1 /\ streams[1].owner = 1 /\ streams[1].open
    /\ conns[1].sstate = "closed"
    /\ abandoned = {}
    /\ Has(clients, "a") /\ Entry("a").ws = 2

\* C26: a file-chunk handled while the path of its (clientId, downloadId) has a
\* write stream that was never ended -- the session of an entry that a later
\* REGISTER replaced -- opens no further write stream on that path and leaves
\* the bytes already written to it in place.
C26_NoReopen ==
    [][\A c \in ConnIds : \A cid \in Ids : \A did \in 0..ForeignDownloadId :
          LET path == FilePath(cid, did)
          IN  (/\ SessionFrameOn(c)
               /\ path \in DOMAIN files
               /\ \E h \in 1..Len(streams) : streams[h].path = path /\ streams[h].open)
              => /\ \A h \in 1..Len(streams') : streams'[h].path = path => h <= Len(streams)
                 /\ Len(files'[path]) >= Len(files[path])
                 /\ SubSeq(files'[path], 1, Len(files[path])) = files[path]]_vars

\* C27: when the callback of a chunk's send reports an error the read stream is
\* destroyed and neither chunkIndex nor totalBytesSent counts that chunk; a
\* destroyed stream stays destroyed, and its transfer hands no further chunk
\* and no completion frame to any socket.
C27_SendFailureStops ==
    [][\A p \in Procs : \A k \in 1..Len(xfers[p]) :
          LET t == xfers[p][k]
          IN  /\ (SendCallback(p, k, TRUE) /\ t.st = "paused") =>
                     /\ xfers'[p][k].st = "destroyed"
                     /\ xfers'[p][k].chunkIndex = t.chunkIndex
                     /\ xfers'[p][k].totalBytesSent = t.totalBytesSent
                     /\ c2s' = c2s
              /\ t.st = "destroyed" =>
                     /\ k <= Len(xfers'[p])
                     /\ xfers'[p][k].st = "destroyed"
                     /\ xfers'[p][k].sent = t.sent
                     /\ xfers'[p][k].idxs = t.idxs
                     /\ xfers'[p][k].out = t.out]_vars

\* The send of the second chunk of three failed in its callback.
C27_Witness ==
    \E k \in 1..Len(xfers["p1"]) :
        LET t == xfers["p1"][k]
        IN  /\ t.st = "destroyed"
            /\ t.sent = 2 /\ t.cbs = 2 /\ t.chunkIndex = 1
            /\ t.pos < Len(source["p1"].bytes)
            /\ t.idxs = <<0, 1>> /\ t.out = <<>>
            /\ alive["p1"] /\ sendErr

\* C28: a transfer hands a chunk, completion or error frame only to a socket
\* that existed when its download-request was handled, never to one the
\* client opened afterwards by reconnecting.
C28_BoundToConnection ==
    [][\A p \in Procs : \A k \in 1..Len(xfers[p]) : \A w \in ConnIds :
          (/\ k <= Len(xfers'[p])
           /\ xfers'[p][k].idxs # xfers[p][k].idxs \/ xfers'[p][k].out # xfers[p][k].out
           /\ c2s'[w] # c2s[w])
          => w <= xfers[p][k].born]_vars

\* C29: when a socket of the client opens, the reconnect timer is cancelled and
\* exactly one register frame carrying the client's id is queued on that
\* socket, none on another, and the client keeps running.
C29_Reconnect ==
    [][\A c \in ConnIds : Open(c) =>
          LET p == conns[c].owner
          IN  /\ ~reconnectInterval'[p]
              /\ alive'[p]
              /\ c2s' = [c2s EXCEPT ![c] = Append(@, RegisterMsg(CLIENT_ID[p]))]]_vars

====
